---- MODULE Spec2Model ----
(***************************************************************************)
(* Assignment submission / grading web application (Flask routes over two *)
(* Cosmos containers, a blob container and the Flask session).            *)
(*                                                                         *)
(* Strings are sequences of one-character strings, so that str.strip()    *)
(* and len() are computed and not assumed.  Python's None and a missing   *)
(* form key or dict key are values outside the strings over characters.   *)
(***************************************************************************)
EXTENDS Integers, Sequences, FiniteSets, TLC

VARIABLES
    submissions,  \* Cosmos container "submissions" (partition key /erp): set of documents
    blobs,        \* blob container "assignments": set of [name, data]
    teachers,     \* Cosmos container "teachers" (partition key /id): set of documents
    legacy,       \* TEACHERS_FILE: set of [id, hash] (a JSON object, one hash per id)
    session,      \* the Flask session of the browser
    adminEnv,     \* ADMIN_USERNAME / ADMIN_PASSWORD_HASH / ADMIN_PASSWORD of the process
    now,          \* datetime.utcnow()
    greq,         \* grade requests between their query_items and their upsert_item
    creq,         \* create-teacher requests between their read_item and their upsert_item
    receipts,     \* tracking ids rendered to students by submit, with the form they sent
    resp,         \* the response of the request that completed last
    calls,        \* the remote calls issued by the last step, in order
    served        \* how many requests of each bounded kind were accepted

vars == <<submissions, blobs, teachers, legacy, session, adminEnv, now, greq, creq,
          receipts, resp, calls, served>>

-----------------------------------------------------------------------------
(* Bounds of the model *)

MaxClock == 1
MaxSubmits == 2
MaxGrades == 2
MaxCreates == 2
NumCalls == 2

-----------------------------------------------------------------------------
(* Python values *)

None == <<"None">>
Missing == <<"Missing">>
NoKey == <<"NoKey">>

RECURSIVE lstrip(_)
lstrip(s) ==
    IF s # <<>> /\ Head(s) = " " THEN lstrip(Tail(s)) ELSE s

RECURSIVE rstrip(_)
rstrip(s) ==
    IF s # <<>> /\ s[Len(s)] = " " THEN rstrip(SubSeq(s, 1, Len(s) - 1)) ELSE s

\* str.strip()
strip(s) == rstrip(lstrip(s))

\* truth value of a str or None
Truthy(v) == v # None /\ v # <<>>

\* request.form.get(key, default)
FormGet(form, key, default) ==
    IF form[key] = Missing THEN default ELSE form[key]

\* datetime.utcnow().isoformat()
isoformat(t) == <<"T", t>>

-----------------------------------------------------------------------------
(* Responses *)

Response(route, kind, target, flash, data) ==
    [route |-> route, kind |-> kind, target |-> target, flash |-> flash, data |-> data]

Redirect(route, target, flash) == Response(route, "redirect", target, flash, <<>>)

Render(route, page, flash, data) == Response(route, "render", page, flash, data)

\* an exception that leaves the view function: Flask answers 500
Unhandled(route, exc) == Response(route, "unhandled", "500", <<exc>>, <<>>)

-----------------------------------------------------------------------------
(* Cosmos containers *)

\* upsert_item as an insert: the document is added, none is replaced
UpsertSubmission_Insert(store, doc) == store \cup {doc}

\* ContainerProxy.upsert_item on "submissions": one document per (partition key, id)
UpsertSubmission(store, doc) ==
    {d \in store : ~(d.id = doc.id /\ d.erp = doc.erp)} \cup {doc}

\* the query without its WHERE clause
QueryById_All(store, tracking_id) == store

\* SELECT * FROM c WHERE c.id='<tracking_id>' (cross-partition)
QueryById(store, tracking_id) == {d \in store : d.id = tracking_id}

-----------------------------------------------------------------------------
(* Blob storage *)

\* the separators secure_filename replaces by a space before it splits
ReplaceSeparators(s) == [i \in 1..Len(s) |-> IF s[i] = "/" THEN " " ELSE s[i]]

\* "_".join(s.split()): runs of spaces inside become one "_", outer ones go
RECURSIVE JoinWords(_)
JoinWords(s) ==
    IF s = <<>> THEN <<>>
    ELSE IF Head(s) # " " THEN <<Head(s)>> \o JoinWords(Tail(s))
    ELSE IF lstrip(s) = <<>> THEN <<>>
    ELSE <<"_">> \o JoinWords(lstrip(s))

RECURSIVE StripDots(_)
StripDots(s) ==
    IF s # <<>> /\ Head(s) \in {".", "_"} THEN StripDots(Tail(s))
    ELSE IF s # <<>> /\ s[Len(s)] \in {".", "_"} THEN StripDots(SubSeq(s, 1, Len(s) - 1))
    ELSE s

\* werkzeug.utils.secure_filename
secure_filename(filename) == StripDots(JoinWords(lstrip(ReplaceSeparators(filename))))

\* the blob's name and the URL the blob client reports for it
BlobName(tracking_id, filename) == <<tracking_id, secure_filename(filename)>>

BlobUrl(name) == [container |-> "assignments", blob |-> name]

\* an upload that reports success and stores nothing
PutBlob_Lost(store, name, data) == store

\* upload_blob(stream, overwrite=True)
PutBlob(store, name, data) ==
    {b \in store : b.name # name} \cup {[name |-> name, data |-> data]}

-----------------------------------------------------------------------------
(* app.py: submit *)

RequiredKeys == {"name", "erp", "branch", "section", "subject"}

\* truth value of request.files.get("file"): None when the part is absent (a file whose
\* filename is None here), and a FileStorage is true iff it has a filename
FileTruthy(file) == Truthy(file.filename)

\* line 119 without its test of subject
AllRequired_NoSubject(name, erp, branch, section, subject, file) ==
    /\ Truthy(name)
    /\ Truthy(erp)
    /\ Truthy(branch)
    /\ Truthy(section)
    /\ FileTruthy(file)

\* the condition of line 119, on the stripped fields
AllRequired(name, erp, branch, section, subject, file) ==
    /\ Truthy(name)
    /\ Truthy(erp)
    /\ Truthy(branch)
    /\ Truthy(section)
    /\ Truthy(subject)
    /\ FileTruthy(file)

NewSubmission(tracking_id, name, erp, branch, section, subject, description, file_url, at) ==
    [id |-> tracking_id, student_name |-> name, erp |-> erp, branch |-> branch,
     section |-> section, subject |-> subject, description |-> description,
     file_url |-> file_url, submitted_at |-> isoformat(at),
     marks |-> None, remark |-> None, graded_at |-> NoKey]

SubmitError(exc) == Redirect("submit", "student", <<"Error during submit", exc>>)

\* POST /submit.  tracking_id is uuid.uuid4().hex[:10]; blobOK and cosmosOK say
\* whether upload_blob and upsert_item succeed.
submit(form, file, tracking_id, blobOK, cosmosOK) ==
    /\ UNCHANGED <<teachers, legacy, session, adminEnv, now, greq, creq>>
    /\ IF \E k \in RequiredKeys : form[k] = Missing
       THEN /\ resp' = SubmitError("BadRequestKeyError")
            /\ calls' = <<>>
            /\ UNCHANGED <<submissions, blobs, receipts, served>>
       ELSE LET name == strip(form.name)
                erp == strip(form.erp)
                branch == strip(form.branch)
                section == strip(form.section)
                subject == strip(form.subject)
                description == strip(FormGet(form, "description", <<>>))
            IN  IF ~AllRequired(name, erp, branch, section, subject, file)
                THEN /\ resp' = Redirect("submit", "student",
                                   <<"Please fill all required fields and attach the file.">>)
                     /\ calls' = <<>>
                     /\ UNCHANGED <<submissions, blobs, receipts, served>>
                ELSE /\ served.submit < MaxSubmits
                     /\ served' = [served EXCEPT !.submit = @ + 1]
                     /\ IF ~blobOK
                        THEN /\ resp' = SubmitError("upload_blob")
                             /\ calls' = <<"blob.upload_blob">>
                             /\ UNCHANGED <<submissions, blobs, receipts>>
                        ELSE LET blob == BlobName(tracking_id, file.filename)
                                 doc == NewSubmission(tracking_id, name, erp, branch, section,
                                            subject, description, BlobUrl(blob), now)
                             IN  /\ blobs' = PutBlob(blobs, blob, file.data)
                                 /\ calls' = <<"blob.upload_blob", "submissions.upsert_item">>
                                 /\ IF ~cosmosOK
                                    THEN /\ resp' = SubmitError("upsert_item")
                                         /\ UNCHANGED <<submissions, receipts>>
                                    ELSE /\ submissions' = UpsertSubmission(submissions, doc)
                                         /\ receipts' = receipts \cup
                                                {[tracking_id |-> tracking_id, form |-> form]}
                                         /\ resp' = Render("submit", "student.html", <<>>,
                                                       <<[tracking_id |-> tracking_id]>>)

-----------------------------------------------------------------------------
(* app.py: the teacher guard, the teacher list, grade, track *)

\* a teacher guard that an admin session passes too
TeacherAllowed_OrAdmin(s) == Truthy(s.teacher) \/ s.admin_authenticated

\* the condition of teacher_required: session.get("teacher") is true
TeacherAllowed(s) == Truthy(s.teacher)

\* teacher_required's redirect(url_for("login", next=request.path))
ToLogin(route, path) == Response(route, "redirect", "login", <<>>, <<[next |-> path]>>)

\* the sequences that list the documents of S newest first (ORDER BY c.<at> DESC);
\* the order among equal timestamps is the store's
RECURSIVE NewestFirst(_)
NewestFirst(S) ==
    IF S = {} THEN {<<>>}
    ELSE UNION {{<<d>> \o rest : rest \in NewestFirst(S \ {d})} :
                d \in {x \in S : \A y \in S : x.at[2] >= y.at[2]}}

\* GET /teacher
teacher(queryOK) ==
    /\ UNCHANGED <<submissions, blobs, teachers, legacy, session, adminEnv, now, greq, creq,
                   receipts, served>>
    /\ IF ~TeacherAllowed(session)
       THEN /\ resp' = ToLogin("teacher", <<"/teacher">>)
            /\ calls' = <<>>
       ELSE /\ calls' = <<"submissions.query_items">>
            /\ IF ~queryOK
               THEN resp' = Render("teacher", "teacher.html",
                                   <<"Error loading submissions", "query_items">>, <<>>)
               ELSE \E items \in NewestFirst({[at |-> d.submitted_at, doc |-> d] :
                                               d \in submissions}) :
                        resp' = Render("teacher", "teacher.html", <<>>,
                                       [i \in 1..Len(items) |-> items[i].doc])

\* a request that is not in flight holds no document
NoDocument == [id |-> None]

IdleGrade == [pc |-> "idle", item |-> NoDocument]

GradeError(exc) == Redirect("grade", "teacher", <<"Error updating grade", exc>>)

\* lines 179-182 without line 181: the remark is left as fetched
Graded_KeepRemark(item, marks, remark, at) ==
    [item EXCEPT !.marks = marks, !.graded_at = isoformat(at)]

\* lines 179-182: the fetched document with its grading fields overwritten
Graded(item, marks, remark, at) ==
    [item EXCEPT !.marks = marks, !.remark = remark, !.graded_at = isoformat(at)]

\* POST /grade up to its upsert_item: the guard, the form, the lookup (request c)
gradeLookup(c, form, queryOK) ==
    /\ greq[c].pc = "idle"
    /\ UNCHANGED <<submissions, blobs, teachers, legacy, session, adminEnv, now, creq,
                   receipts>>
    /\ IF ~TeacherAllowed(session)
       THEN /\ resp' = ToLogin("grade", <<"/grade">>)
            /\ calls' = <<>>
            /\ UNCHANGED <<greq, served>>
       ELSE IF form.tracking_id = Missing
       THEN /\ resp' = GradeError("BadRequestKeyError")
            /\ calls' = <<>>
            /\ UNCHANGED <<greq, served>>
       ELSE LET tracking_id == strip(form.tracking_id)
                marks == FormGet(form, "marks", None)
                remark == strip(FormGet(form, "remark", <<>>))
                items == QueryById(submissions, tracking_id)
            IN  /\ calls' = <<"submissions.query_items">>
                /\ IF ~queryOK
                   THEN /\ resp' = GradeError("query_items")
                        /\ UNCHANGED <<greq, served>>
                   ELSE IF items = {}
                   THEN /\ resp' = Redirect("grade", "teacher", <<"Submission not found">>)
                        /\ UNCHANGED <<greq, served>>
                   ELSE /\ served.grade < MaxGrades
                        /\ served' = [served EXCEPT !.grade = @ + 1]
                        /\ \E first \in items :
                               greq' = [greq EXCEPT ![c] =
                                   [pc |-> "upsert", item |-> Graded(first, marks, remark, now)]]
                        /\ resp' = resp

\* POST /grade from its upsert_item on (request c)
gradeWrite(c, cosmosOK) ==
    /\ greq[c].pc = "upsert"
    /\ UNCHANGED <<blobs, teachers, legacy, session, adminEnv, now, creq, receipts, served>>
    /\ greq' = [greq EXCEPT ![c] = IdleGrade]
    /\ calls' = <<"submissions.upsert_item">>
    /\ IF cosmosOK
       THEN /\ submissions' = UpsertSubmission(submissions, greq[c].item)
            /\ resp' = Redirect("grade", "teacher", <<"Grades updated">>)
       ELSE /\ resp' = GradeError("upsert_item")
            /\ UNCHANGED submissions

\* GET or POST /track
track(method, form, queryOK) ==
    /\ UNCHANGED <<submissions, blobs, teachers, legacy, session, adminEnv, now, greq, creq,
                   receipts, served>>
    /\ LET tracking_id == strip(FormGet(form, "tracking_id", <<>>))
       IN  IF method = "POST" /\ Truthy(tracking_id)
           THEN /\ calls' = <<"submissions.query_items">>
                /\ IF ~queryOK
                   THEN resp' = Unhandled("track", "query_items")
                   ELSE LET items == QueryById(submissions, tracking_id)
                        IN  IF items = {}
                            THEN resp' = Render("track", "track.html",
                                                <<"Tracking ID not found">>, <<>>)
                            ELSE \E first \in items :
                                     resp' = Render("track", "track.html", <<>>, <<first>>)
           ELSE /\ calls' = <<>>
                /\ resp' = Render("track", "track.html", <<>>, <<>>)

-----------------------------------------------------------------------------
(* werkzeug.security *)

\* generate_password_hash(password) with the salt it drew: "method$salt$digest".
\* The digest is a one-to-one image of (salt, password).
generate_password_hash(salt, password) == <<"pbkdf2", salt>> \o password

\* check_password_hash that looks at the method and not at the digest
check_password_hash_MethodOnly(pwhash, password) ==
    /\ Len(pwhash) >= 2
    /\ pwhash[1] = "pbkdf2"

\* check_password_hash(pwhash, password): the digest of password under pwhash's own
\* salt equals pwhash's digest; a string that is no hash matches nothing
check_password_hash(pwhash, password) ==
    /\ Len(pwhash) >= 2
    /\ pwhash[1] = "pbkdf2"
    /\ pwhash = generate_password_hash(pwhash[2], password)

-----------------------------------------------------------------------------
(* app.py: teacher login and logout *)

\* load_teacher_from_db: the active teacher documents with this id, none when
\* the query raises
load_teacher_from_db(store, teacher_id, queryOK) ==
    IF queryOK
    THEN {d \in store : d.id = teacher_id /\ d.role = "teacher" /\ d.isActive}
    ELSE {}

\* load_teachers_legacy: the file's entries, none when it cannot be read
load_teachers_legacy(file, fileOK) == IF fileOK THEN file ELSE {}

\* line 217: the database document whose stored hash matches the password
PrimaryMatch(items, password) ==
    {d \in items : check_password_hash(d.password, password)}

\* lines 225-226: the legacy entry of this id whose hash matches the password
LegacyMatch(entries, teacher_id, password) ==
    {e \in entries : e.id = teacher_id /\ Truthy(e.hash)
                       /\ check_password_hash(e.hash, password)}

\* GET or POST /login; next is request.args.get("next")
login(method, form, next, queryOK, fileOK) ==
    /\ UNCHANGED <<submissions, blobs, teachers, legacy, adminEnv, now, greq, creq,
                   receipts, served>>
    /\ LET next_url == IF Truthy(next) THEN next ELSE <<"/teacher">>
           teacher_id == strip(FormGet(form, "teacher_id", <<>>))
           password == FormGet(form, "password", <<>>)
           items == load_teacher_from_db(teachers, teacher_id, queryOK)
           entries == load_teachers_legacy(legacy, fileOK)
       IN  IF method # "POST"
           THEN /\ resp' = Render("login", "login.html", <<>>, <<[next |-> next_url]>>)
                /\ calls' = <<>>
                /\ UNCHANGED session
           ELSE IF PrimaryMatch(items, password) # {}
           THEN /\ \E t \in PrimaryMatch(items, password) :
                       session' = [session EXCEPT !.teacher = teacher_id,
                                                  !.teacher_name = t.name]
                /\ resp' = Response("login", "redirect", next_url,
                                    <<"Logged in successfully">>, <<>>)
                /\ calls' = <<"teachers.query_items">>
           ELSE IF LegacyMatch(entries, teacher_id, password) # {}
           THEN /\ session' = [session EXCEPT !.teacher = teacher_id,
                                              !.teacher_name = teacher_id]
                /\ resp' = Response("login", "redirect", next_url,
                                    <<"Logged in successfully (legacy)">>, <<>>)
                /\ calls' = <<"teachers.query_items", "legacy.open">>
           ELSE /\ resp' = Render("login", "login.html",
                                  <<"Invalid teacher ID or password">>, <<[next |-> next_url]>>)
                /\ calls' = <<"teachers.query_items", "legacy.open">>
                /\ UNCHANGED session

\* GET /logout
logout ==
    /\ UNCHANGED <<submissions, blobs, teachers, legacy, adminEnv, now, greq, creq,
                   receipts, served>>
    /\ session' = [session EXCEPT !.teacher = None]
    /\ resp' = Redirect("logout", "student", <<"Logged out">>)
    /\ calls' = <<>>

-----------------------------------------------------------------------------
(* scripts/add_teacher.py *)

\* add <teacher_id>, with the two passwords typed at the prompts
add_teacher(teacher_id, pwd, pwd2, salt, fileOK) ==
    /\ UNCHANGED <<submissions, blobs, teachers, session, adminEnv, now, greq, creq,
                   receipts, resp, calls, served>>
    /\ pwd = pwd2
    /\ fileOK
    /\ legacy' = {e \in legacy : e.id # teacher_id}
                    \cup {[id |-> teacher_id, hash |-> generate_password_hash(salt, pwd)]}

-----------------------------------------------------------------------------
(* admin/admin_auth.py *)

is_admin_authenticated(s) == s.admin_authenticated

\* admin_required's redirect(url_for('admin.admin_login', next=request.path))
ToAdminLogin(route, path) ==
    Response(route, "redirect", "admin.admin_login",
             <<"Admin access required. Please log in.">>, <<[next |-> path]>>)

\* verify_admin_credentials; salt is the one generate_password_hash draws when
\* only the plain ADMIN_PASSWORD is set
verify_admin_credentials(env, username, password, salt) ==
    LET configured == IF Truthy(env.password_hash) THEN env.password_hash ELSE env.password
        admin_password_hash ==
            IF configured = env.password
            THEN generate_password_hash(salt, configured)
            ELSE configured
    IN  /\ Truthy(configured)
        /\ username = env.username
        /\ check_password_hash(admin_password_hash, password)

-----------------------------------------------------------------------------
(* admin/admin_routes.py *)

\* GET or POST /admin/login
admin_login(method, form, next, salt) ==
    /\ UNCHANGED <<submissions, blobs, teachers, legacy, adminEnv, now, greq, creq,
                   receipts, served>>
    /\ calls' = <<>>
    /\ LET username == strip(FormGet(form, "username", <<>>))
           password == FormGet(form, "password", <<>>)
           next_url == IF Truthy(next) THEN next ELSE <<"/admin/dashboard">>
       IN  IF is_admin_authenticated(session)
           THEN /\ resp' = Redirect("admin_login", "admin.admin_dashboard", <<>>)
                /\ UNCHANGED session
           ELSE IF method = "POST" /\ verify_admin_credentials(adminEnv, username, password, salt)
           THEN /\ session' = [session EXCEPT !.admin_authenticated = TRUE,
                                              !.admin_username = username]
                /\ resp' = Response("admin_login", "redirect", next_url,
                                    <<"Admin login successful">>, <<>>)
           ELSE /\ resp' = Render("admin_login", "admin/admin_login.html",
                                  IF method = "POST" THEN <<"Invalid admin credentials">>
                                  ELSE <<>>, <<>>)
                /\ UNCHANGED session

\* GET /admin/logout
admin_logout ==
    /\ UNCHANGED <<submissions, blobs, teachers, legacy, adminEnv, now, greq, creq,
                   receipts, served>>
    /\ calls' = <<>>
    /\ IF ~is_admin_authenticated(session)
       THEN /\ resp' = ToAdminLogin("admin_logout", <<"/admin/logout">>)
            /\ UNCHANGED session
       ELSE /\ session' = [session EXCEPT !.admin_authenticated = FALSE,
                                          !.admin_username = None]
            /\ resp' = Redirect("admin_logout", "admin.admin_login",
                                <<"Admin logged out successfully">>)

\* SELECT * FROM c WHERE c.role = 'teacher'
TeacherDocs(store) == {d \in store : d.role = "teacher"}

\* GET /admin/dashboard
admin_dashboard(cosmosOK) ==
    /\ UNCHANGED <<submissions, blobs, teachers, legacy, session, adminEnv, now, greq, creq,
                   receipts, served>>
    /\ IF ~is_admin_authenticated(session)
       THEN /\ resp' = ToAdminLogin("admin_dashboard", <<"/admin/dashboard">>)
            /\ calls' = <<>>
       ELSE /\ calls' = <<"teachers.query_items">>
            /\ IF ~cosmosOK
               THEN resp' = Render("admin_dashboard", "admin/admin_dashboard.html",
                                   <<"Error loading dashboard", "query_items">>, <<>>)
               ELSE \E items \in NewestFirst({[at |-> d.createdAt, doc |-> d] :
                                               d \in TeacherDocs(teachers)}) :
                        resp' = Render("admin_dashboard", "admin/admin_dashboard.html", <<>>,
                                       [i \in 1..Len(items) |-> items[i].doc])

\* GET /admin/teachers; its except clause names `app`, which this module never binds
list_teachers(cosmosOK) ==
    /\ UNCHANGED <<submissions, blobs, teachers, legacy, session, adminEnv, now, greq, creq,
                   receipts, served>>
    /\ IF ~is_admin_authenticated(session)
       THEN /\ resp' = ToAdminLogin("list_teachers", <<"/admin/teachers">>)
            /\ calls' = <<>>
       ELSE /\ calls' = <<"teachers.query_items">>
            /\ IF ~cosmosOK
               THEN resp' = Unhandled("list_teachers", "NameError")
               ELSE \E items \in NewestFirst({[at |-> d.createdAt, doc |-> d] :
                                               d \in TeacherDocs(teachers)}) :
                        resp' = Response("list_teachers", "json", "200", <<>>,
                                         [i \in 1..Len(items) |-> items[i].doc])

\* ContainerProxy.upsert_item on "teachers": one document per id
UpsertTeacher(store, doc) == {d \in store : d.id # doc.id} \cup {doc}

\* ContainerProxy.read_item(id, id): the document, or an exception (not found, or the
\* call itself failing)
ReadTeacher(store, teacher_id, readOK) ==
    IF readOK THEN {d \in store : d.id = teacher_id} ELSE {}

\* lines 101-107: the validation without its test of the password's length
CreateInvalid_NoLengthTest(teacher_id, teacher_name, password, confirm_password) ==
    IF ~(Truthy(teacher_id) /\ Truthy(teacher_name) /\ Truthy(password))
    THEN <<"All fields are required">>
    ELSE IF password # confirm_password
    THEN <<"Passwords do not match">>
    ELSE <<>>

\* lines 101-111
CreateInvalid(teacher_id, teacher_name, password, confirm_password) ==
    IF ~(Truthy(teacher_id) /\ Truthy(teacher_name) /\ Truthy(password))
    THEN <<"All fields are required">>
    ELSE IF password # confirm_password
    THEN <<"Passwords do not match">>
    ELSE IF Len(password) < 6
    THEN <<"Password must be at least 6 characters long">>
    ELSE <<>>

NewTeacher(teacher_id, teacher_name, pwhash, createdBy, at) ==
    [id |-> teacher_id, name |-> teacher_name, password |-> pwhash, role |-> "teacher",
     createdBy |-> createdBy, createdAt |-> isoformat(at), isActive |-> TRUE]

IdleCreate == [pc |-> "idle", doc |-> NoDocument]

\* the default of session.get('admin_username', 'admin') and of ADMIN_USERNAME
DefaultAdmin == <<"a", "d", "m", "i", "n">>

ToDashboard(route, flash) == Redirect(route, "admin.admin_dashboard", flash)

\* POST /admin/create-teacher up to its upsert_item (request c): the guard, the
\* validation, the duplicate check.  clientOK: get_teachers_container_from_env
\* returns; readOK: read_item's call reaches the store and is answered.
createTeacherCheck(c, form, salt, clientOK, readOK) ==
    /\ creq[c].pc = "idle"
    /\ UNCHANGED <<submissions, blobs, teachers, legacy, session, adminEnv, now, greq,
                   receipts>>
    /\ LET teacher_id == strip(FormGet(form, "teacher_id", <<>>))
           teacher_name == strip(FormGet(form, "teacher_name", <<>>))
           password == FormGet(form, "password", <<>>)
           confirm_password == FormGet(form, "confirm_password", <<>>)
           invalid == CreateInvalid(teacher_id, teacher_name, password, confirm_password)
       IN  IF ~is_admin_authenticated(session)
           THEN /\ resp' = ToAdminLogin("create_teacher", <<"/admin/create-teacher">>)
                /\ calls' = <<>>
                /\ UNCHANGED <<creq, served>>
           ELSE IF invalid # <<>>
           THEN /\ resp' = ToDashboard("create_teacher", invalid)
                /\ calls' = <<>>
                /\ UNCHANGED <<creq, served>>
           ELSE IF ~clientOK
           THEN /\ resp' = Unhandled("create_teacher", "NameError")
                /\ calls' = <<"teachers.client">>
                /\ UNCHANGED <<creq, served>>
           ELSE IF ReadTeacher(teachers, teacher_id, readOK) # {}
           THEN /\ resp' = ToDashboard("create_teacher", <<"Teacher ID already exists">>)
                /\ calls' = <<"teachers.client", "teachers.read_item">>
                /\ UNCHANGED <<creq, served>>
           ELSE /\ served.create < MaxCreates
                /\ served' = [served EXCEPT !.create = @ + 1]
                /\ creq' = [creq EXCEPT ![c] =
                       [pc |-> "upsert",
                        doc |-> NewTeacher(teacher_id, teacher_name,
                                    generate_password_hash(salt, password),
                                    IF session.admin_username = None THEN DefaultAdmin
                                    ELSE session.admin_username, now)]]
                /\ calls' = <<"teachers.client", "teachers.read_item">>
                /\ resp' = resp

\* POST /admin/create-teacher from its upsert_item on (request c); the except
\* clause of the handler names `app`, which this module never binds
createTeacherWrite(c, cosmosOK) ==
    /\ creq[c].pc = "upsert"
    /\ UNCHANGED <<submissions, blobs, legacy, session, adminEnv, now, greq, receipts,
                   served>>
    /\ creq' = [creq EXCEPT ![c] = IdleCreate]
    /\ calls' = <<"teachers.upsert_item">>
    /\ IF cosmosOK
       THEN /\ teachers' = UpsertTeacher(teachers, creq[c].doc)
            /\ resp' = ToDashboard("create_teacher", <<"created successfully">>)
       ELSE /\ resp' = Unhandled("create_teacher", "NameError")
            /\ UNCHANGED teachers

\* delete_item raising only when the call fails: a missing document goes unnoticed
DeleteRaises_NotFoundMasked(store, teacher_id, cosmosOK) == ~cosmosOK

\* ContainerProxy.delete_item(id, id) raises: the call fails, or the store answers
\* that no document has this id (CosmosResourceNotFoundError)
DeleteRaises(store, teacher_id, cosmosOK) ==
    ~cosmosOK \/ ~\E d \in store : d.id = teacher_id

\* POST /admin/delete-teacher/<teacher_id>
delete_teacher(teacher_id, cosmosOK) ==
    /\ UNCHANGED <<submissions, blobs, legacy, session, adminEnv, now, greq, creq,
                   receipts, served>>
    /\ IF ~is_admin_authenticated(session)
       THEN /\ resp' = ToAdminLogin("delete_teacher", <<"/admin/delete-teacher/">> \o teacher_id)
            /\ calls' = <<>>
            /\ UNCHANGED teachers
       ELSE /\ calls' = <<"teachers.client", "teachers.delete_item">>
            /\ IF ~DeleteRaises(teachers, teacher_id, cosmosOK)
               THEN /\ teachers' = {d \in teachers : d.id # teacher_id}
                    /\ resp' = ToDashboard("delete_teacher", <<"deleted successfully">>)
               ELSE /\ resp' = ToDashboard("delete_teacher",
                                   <<"Error deleting teacher",
                                     IF cosmosOK THEN "CosmosResourceNotFoundError"
                                     ELSE "delete_item">>)
                    /\ UNCHANGED teachers

\* time passes
Tick ==
    /\ now < MaxClock
    /\ now' = now + 1
    /\ UNCHANGED <<submissions, blobs, teachers, legacy, session, adminEnv, greq, creq,
                   receipts, resp, calls, served>>

-----------------------------------------------------------------------------
(* A fresh deployment *)

Requests == 1..NumCalls

Anonymous ==
    [teacher |-> None, teacher_name |-> None,
     admin_authenticated |-> FALSE, admin_username |-> None]

Secret == <<"s", "e", "c", "r", "e", "t">>

Passwd == <<"p", "a", "s", "s", "w", "d", "2">>

Short == <<"a", "b", "c">>

NoAdminEnv == [username |-> DefaultAdmin, password_hash |-> None, password |-> None]

PlainAdminEnv == [username |-> DefaultAdmin, password_hash |-> None, password |-> Passwd]

\* the ways the process's admin credentials can be configured: a hash, a plain
\* password, neither
AdminEnvs ==
    {[username |-> DefaultAdmin, password_hash |-> generate_password_hash("s0", Secret),
      password |-> None],
     PlainAdminEnv, NoAdminEnv}

\* the state of a deployment that has served nothing yet, under configuration env
Fresh(env) ==
    /\ submissions = {}
    /\ blobs = {}
    /\ teachers = {}
    /\ legacy = {}
    /\ session = Anonymous
    /\ adminEnv = env
    /\ now = 0
    /\ greq = [c \in Requests |-> IdleGrade]
    /\ creq = [c \in Requests |-> IdleCreate]
    /\ receipts = {}
    /\ resp = Render("home", "home.html", <<>>, <<>>)
    /\ calls = <<>>
    /\ served = [submit |-> 0, grade |-> 0, create |-> 0]

Init == \E env \in AdminEnvs : Fresh(env)

-----------------------------------------------------------------------------
(* Students: submit and track, from a fresh deployment *)

\* the values uuid.uuid4().hex[:10] takes here (two of the 16^10, shortened); nothing
\* in submit looks whether the value is in use
TrackingIds == {<<"a", "1">>, <<"b", "2">>}

StudentForm(name, erp, description) ==
    [name |-> name, erp |-> erp, branch |-> <<"C", "S">>, section |-> <<"S", " ">>,
     subject |-> <<"M">>, description |-> description]

\* two students of one erp partition and one of another
ValidForms ==
    {StudentForm(<<" ", "A">>, <<"1">>, Missing),
     StudentForm(<<"B">>, <<"1">>, <<" ", "d">>),
     StudentForm(<<"B">>, <<"2", " ">>, Missing)}

\* one required field absent, empty or blank
InvalidForms ==
    {[StudentForm(<<"B">>, <<"1">>, Missing) EXCEPT ![k] = v] :
        k \in RequiredKeys, v \in {Missing, <<>>, <<" ", " ">>}}

SubmitForms == ValidForms \cup InvalidForms

Files ==
    {[filename |-> None, data |-> "none"],
     [filename |-> <<>>, data |-> "empty"],
     [filename |-> <<"/", "g", " ", "h", ".">>, data |-> "doc"]}

TrackingInputs == {Missing, <<>>, <<" ", "a", "1">>, <<"b", "2">>, <<"c", "3">>}

Submit ==
    \E form \in SubmitForms, file \in Files, tracking_id \in TrackingIds,
       blobOK \in BOOLEAN, cosmosOK \in BOOLEAN :
        submit(form, file, tracking_id, blobOK, cosmosOK)

Track ==
    \E method \in {"GET", "POST"}, tracking_id \in TrackingInputs, queryOK \in BOOLEAN :
        track(method, [tracking_id |-> tracking_id], queryOK)

NextSubmit ==
    \/ Submit
    \/ Track

InitSubmit == Fresh(NoAdminEnv)

SpecSubmit == InitSubmit /\ [][NextSubmit]_vars

\* the fields a receipt's form was sent with, as submit trims them
SameFields(d, form) ==
    /\ d.student_name = strip(form.name)
    /\ d.erp = strip(form.erp)
    /\ d.branch = strip(form.branch)
    /\ d.section = strip(form.section)
    /\ d.subject = strip(form.subject)
    /\ d.description = strip(FormGet(form, "description", <<>>))

\* C1: every tracking id submit returned is non-empty and, while no record of that
\* id is graded, track(id) finds a record, and the record it returns has exactly the
\* fields submitted with that id and null marks and remark, whatever other submits
\* came in between.
C1_TrackReturnsSubmitted ==
    \A r \in receipts :
        /\ r.tracking_id # <<>>
        /\ (\A d \in submissions : d.id = r.tracking_id => d.graded_at = NoKey)
            => /\ QueryById(submissions, strip(r.tracking_id)) # {}
               /\ \A d \in QueryById(submissions, strip(r.tracking_id)) :
                      SameFields(d, r.form) /\ d.marks = None /\ d.remark = None

\* a required field of the form is absent or blank, or no file is attached
SomeRequiredEmpty(form, file) ==
    \/ \E k \in RequiredKeys : form[k] = Missing \/ strip(form[k]) = <<>>
    \/ file.filename \in {None, <<>>}

UploadCalled(cs) == \E i \in 1..Len(cs) : cs[i] = "blob.upload_blob"

\* C2: a submit whose name, erp, branch, section, subject or file is missing or
\* blank writes no submission record, uploads no blob and does not call the blob
\* upload: no step that does one of these is such a submit.
C2_InvalidSubmitWritesNothing ==
    [][(submissions' # submissions \/ blobs' # blobs \/ UploadCalled(calls'))
        => ~\E form \in SubmitForms, file \in Files, tracking_id \in TrackingIds,
              blobOK \in BOOLEAN, cosmosOK \in BOOLEAN :
                /\ SomeRequiredEmpty(form, file)
                /\ submit(form, file, tracking_id, blobOK, cosmosOK)]_vars

\* a record and a blob are stored, and the last request was a submit that was
\* turned down for a missing field
C2_Witness ==
    /\ submissions # {}
    /\ blobs # {}
    /\ resp.route = "submit"
    /\ resp.flash = <<"Please fill all required fields and attach the file.">>

\* a blob of this name is in the blob store
Uploaded(store, name) == \E b \in store : b.name = name

\* the record's file_url is the URL of a blob in this blob store whose name
\* starts with the record's tracking id
CarriesUploadedBlob(store, d) ==
    \E b \in store : b.name[1] = d.id /\ d.file_url = BlobUrl(b.name)

\* a submit with every required field and a file, step by step: the upload comes
\* before the write, a failed upload leaves both stores alone, a successful one
\* puts the file under <tracking id>/<secured name> and keeps every blob there
\* was, a failed write leaves the records alone and the blob where it is, and a
\* successful write stores a record of that id with that blob's URL
SubmitInOrder(form, file, tracking_id, blobOK, cosmosOK) ==
    LET name == BlobName(tracking_id, file.filename)
    IN  IF ~blobOK
        THEN /\ calls' = <<"blob.upload_blob">>
             /\ submissions' = submissions
             /\ blobs' = blobs
        ELSE /\ calls' = <<"blob.upload_blob", "submissions.upsert_item">>
             /\ [name |-> name, data |-> file.data] \in blobs'
             /\ \A b \in blobs : Uploaded(blobs', b.name)
             /\ IF ~cosmosOK
                THEN submissions' = submissions
                ELSE \E d \in submissions' :
                         d.id = tracking_id /\ d.file_url = BlobUrl(name)

\* C12: after every step, starting from the empty stores, every submission record
\* in the store carries the URL of a blob that is in the blob store under the
\* record's tracking id; and in every submit that passes validation (a form of
\* ValidForms with a named file; every form of InvalidForms has a required field
\* absent or blank) the upload precedes the write, a failed upload leaves no
\* record and no blob, a failed write after a successful upload leaves the blob
\* in place and the records as they were, and no blob is ever taken back.
C12_UploadBeforeWriteNoRollback ==
    [][/\ \A d \in submissions' : CarriesUploadedBlob(blobs', d)
       /\ \A form \in ValidForms, file \in Files :
              ~SomeRequiredEmpty(form, file)
              => \A tracking_id \in TrackingIds, blobOK \in BOOLEAN, cosmosOK \in BOOLEAN :
                     submit(form, file, tracking_id, blobOK, cosmosOK)
                     => SubmitInOrder(form, file, tracking_id, blobOK, cosmosOK)]_vars

\* the record write failed after the upload: a blob is stored under a tracking
\* id that no record has, next to a record with its blob
C12_Witness ==
    /\ resp = SubmitError("upsert_item")
    /\ calls = <<"blob.upload_blob", "submissions.upsert_item">>
    /\ submissions # {}
    /\ \E b \in blobs : \A d \in submissions : d.id # b.name[1]

-----------------------------------------------------------------------------
(* Teachers: login, the list and grade, over submissions that submit has stored *)

\* what submit stores for a valid form
Stored(tracking_id, form, file, at) ==
    NewSubmission(tracking_id, strip(form.name), strip(form.erp), strip(form.branch),
        strip(form.section), strip(form.subject),
        strip(FormGet(form, "description", <<>>)),
        BlobUrl(BlobName(tracking_id, file.filename)), at)

PdfFile == [filename |-> <<"/", "g", " ", "h", ".">>, data |-> "doc"]

SubmissionA == Stored(<<"a", "1">>, StudentForm(<<" ", "A">>, <<"1">>, Missing), PdfFile, 0)

\* the tracking id of SubmissionA, drawn again for a student of another partition
SubmissionA2 == Stored(<<"a", "1">>, StudentForm(<<"B">>, <<"2", " ">>, Missing), PdfFile, 0)

SeedStores == {{SubmissionA}, {SubmissionA, SubmissionA2}}

\* what create_teacher stores for teacher "t"
TeacherT ==
    NewTeacher(<<"t">>, <<"T">>, generate_password_hash("s1", Secret), DefaultAdmin, 0)

InitGrade ==
    /\ submissions \in SeedStores
    /\ blobs = {[name |-> d.file_url.blob, data |-> PdfFile.data] : d \in submissions}
    /\ teachers = {TeacherT}
    /\ legacy = {}
    /\ session = Anonymous
    /\ adminEnv = NoAdminEnv
    /\ now = 0
    /\ greq = [c \in Requests |-> IdleGrade]
    /\ creq = [c \in Requests |-> IdleCreate]
    /\ receipts = {}
    /\ resp = Render("home", "home.html", <<>>, <<>>)
    /\ calls = <<>>
    /\ served = [submit |-> 0, grade |-> 0, create |-> 0]

\* the marks and remark of a grade form: both given, neither given
Gradings ==
    {[marks |-> <<"7">>, remark |-> <<" ", "o", "k">>],
     [marks |-> Missing, remark |-> Missing]}

GradeForms ==
    {[tracking_id |-> t, marks |-> g.marks, remark |-> g.remark] :
        t \in {Missing, <<" ", "a", "1">>, <<"c", "3">>}, g \in Gradings}

TeacherLogins ==
    {[method |-> "GET", form |-> [teacher_id |-> Missing, password |-> Missing]],
     [method |-> "POST", form |-> [teacher_id |-> <<"t", " ">>, password |-> Secret]],
     [method |-> "POST", form |-> [teacher_id |-> <<"t">>, password |-> Passwd]]}

Teacher == \E queryOK \in BOOLEAN : teacher(queryOK)

\* a new request is the lowest-numbered one that is not in flight
FreeRequest(reqs) == {c \in Requests : reqs[c].pc = "idle" /\ \A b \in 1..(c - 1) : reqs[b].pc # "idle"}

GradeLookup ==
    \E c \in FreeRequest(greq), form \in GradeForms, queryOK \in BOOLEAN :
        gradeLookup(c, form, queryOK)

GradeWrite == \E c \in Requests, cosmosOK \in BOOLEAN : gradeWrite(c, cosmosOK)

TeacherLogin ==
    \E r \in TeacherLogins, queryOK \in BOOLEAN :
        login(r.method, r.form, None, queryOK, TRUE)

Logout == logout

NextGrade ==
    \/ TeacherLogin
    \/ Logout
    \/ Teacher
    \/ GradeLookup
    \/ GradeWrite
    \/ Tick

SpecGrade == InitGrade /\ [][NextGrade]_vars

\* the record of the store that upsert_item(item) replaces
SameRecord(d, item) == d.id = item.id /\ d.erp = item.erp

\* a document without its grading fields
NonGrading(d) ==
    [id |-> d.id, student_name |-> d.student_name, erp |-> d.erp, branch |-> d.branch,
     section |-> d.section, subject |-> d.subject, description |-> d.description,
     file_url |-> d.file_url, submitted_at |-> d.submitted_at]

\* request c is about to write, once more, the marks and the remark that the record
\* it fetched already carries from a grade call
GradesAgain(c, d) ==
    /\ greq[c].pc = "upsert"
    /\ d \in submissions
    /\ d.graded_at # NoKey
    /\ [greq[c].item EXCEPT !.graded_at = d.graded_at] = d

\* C7 as stated: a grade call that repeats the marks and remark of the call before
\* it leaves the submission record as that call left it.
C7_RepeatedGradeChangesNothing ==
    [][\A c \in Requests, cosmosOK \in BOOLEAN, d \in submissions :
        (GradesAgain(c, d) /\ gradeWrite(c, cosmosOK)) => submissions' = submissions]_vars

\* C7 amended: a grade call that repeats the marks and remark of the call before it
\* changes nothing of the store but the record's graded_at, which becomes the time
\* of the repeated call; no record is added and no other field or record changes.
C7_RepeatedGradeChangesOnlyGradedAt ==
    [][\A c \in Requests, cosmosOK \in BOOLEAN, d \in submissions :
        (GradesAgain(c, d) /\ gradeWrite(c, cosmosOK))
        => submissions' =
              IF cosmosOK
              THEN (submissions \ {d}) \cup {[d EXCEPT !.graded_at = greq[c].item.graded_at]}
              ELSE submissions]_vars

\* a record graded at time 0 with marks 7 and remark "ok" was looked up at time 1 by
\* a call that is about to write the same marks and remark
C7_Witness ==
    \E c \in Requests, d \in submissions :
        /\ GradesAgain(c, d)
        /\ d.marks = <<"7">>
        /\ d.remark = <<"o", "k">>
        /\ d.graded_at = isoformat(0)
        /\ greq[c].item.graded_at = isoformat(1)

\* C9: a grade call's write replaces the one record it fetched by a record that
\* has the marks and the remark of that call (both of them) and the fetched
\* record's other fields; the number of records stays, every other record stays,
\* and every record keeps the non-grading fields it was submitted with.  So after
\* two calls that race, the record is what the later write wrote.
C9_LastWriteWins ==
    [][/\ \A c \in Requests :
            (greq[c].pc = "idle" /\ greq'[c].pc = "upsert")
            => \A form \in GradeForms, queryOK \in BOOLEAN :
                   gradeLookup(c, form, queryOK)
                   => /\ greq'[c].item.marks = FormGet(form, "marks", None)
                      /\ greq'[c].item.remark = strip(FormGet(form, "remark", <<>>))
                      /\ \E d \in submissions :
                             /\ d.id = strip(form.tracking_id)
                             /\ NonGrading(greq'[c].item) = NonGrading(d)
       /\ \A c \in Requests :
            (greq[c].pc = "upsert" /\ greq'[c].pc = "idle" /\ gradeWrite(c, TRUE))
            => /\ Cardinality(submissions') = Cardinality(submissions)
               /\ greq[c].item \in submissions'
               /\ \A d \in submissions :
                      IF SameRecord(d, greq[c].item)
                      THEN \A e \in submissions' : SameRecord(e, d) => e = greq[c].item
                      ELSE d \in submissions'
       /\ \A e \in submissions' :
            \E S \in SeedStores : \E d \in S : NonGrading(e) = NonGrading(d)]_vars

\* two grade calls on one record race: the call that looked the record up at time
\* 0 has not written yet, the one that looked it up at time 1 has; the marks differ
C9_Witness ==
    /\ greq[1].pc = "upsert"
    /\ greq[2].pc = "idle"
    /\ greq[1].item.graded_at = isoformat(0)
    /\ \E d \in submissions :
           /\ SameRecord(d, greq[1].item)
           /\ d.graded_at = isoformat(1)
           /\ d.marks # greq[1].item.marks
           /\ d.remark # greq[1].item.remark

\* C10: a grade request whose tracking id is the id of no submission record (the
\* lookup being answered) leaves the submissions store as it is, schedules no
\* write, and answers "Submission not found".
C10_GradeUnknownId ==
    [][\A c \in Requests, form \in GradeForms :
        (/\ TeacherAllowed(session)
         /\ form.tracking_id # Missing
         /\ ~\E d \in submissions : d.id = strip(form.tracking_id)
         /\ gradeLookup(c, form, TRUE))
        => /\ submissions' = submissions
           /\ greq' = greq
           /\ resp' = Redirect("grade", "teacher", <<"Submission not found">>)]_vars

\* a logged-in teacher was answered "Submission not found", the store being non-empty
C10_Witness ==
    /\ resp.route = "grade"
    /\ resp.flash = <<"Submission not found">>
    /\ submissions # {}
    /\ TeacherAllowed(session)

-----------------------------------------------------------------------------
(* The admin: login, the dashboard, creating and deleting teachers; teachers
   logging in with what the admin and the legacy script stored *)

Salts == {"s1"}

CreateForm(teacher_id, teacher_name, password, confirm_password) ==
    [teacher_id |-> teacher_id, teacher_name |-> teacher_name, password |-> password,
     confirm_password |-> confirm_password]

ValidCreateForms ==
    {CreateForm(<<" ", "t">>, <<"T">>, Secret, Secret),
     CreateForm(<<"t">>, <<"V", " ">>, Secret, Secret),
     CreateForm(<<"u">>, <<"T">>, Secret, Secret)}

\* a field absent or blank, the passwords differing, the password too short
InvalidCreateForms ==
    {CreateForm(Missing, <<"T">>, Secret, Secret),
     CreateForm(<<" ", " ">>, <<"T">>, Secret, Secret),
     CreateForm(<<"u">>, <<>>, Secret, Secret),
     CreateForm(<<"u">>, <<"T">>, Missing, Missing),
     CreateForm(<<"u">>, <<"T">>, Secret, Passwd),
     CreateForm(<<"u">>, <<"T">>, Short, Short)}

CreateForms == ValidCreateForms \cup InvalidCreateForms

TeacherIds == {<<"t">>, <<"u">>}

AdminLogins ==
    {[method |-> "GET", form |-> [username |-> Missing, password |-> Missing]],
     [method |-> "POST", form |-> [username |-> DefaultAdmin \o <<" ">>, password |-> Secret]],
     [method |-> "POST", form |-> [username |-> DefaultAdmin, password |-> Passwd]],
     [method |-> "POST", form |-> [username |-> <<"r">>, password |-> Secret]]}

NextPaths == {None, <<"/grade">>}

AdminLogin ==
    \E r \in AdminLogins, next \in NextPaths, salt \in Salts :
        admin_login(r.method, r.form, next, salt)

AdminLogout == admin_logout

AdminDashboard == \E cosmosOK \in BOOLEAN : admin_dashboard(cosmosOK)

ListTeachers == \E cosmosOK \in BOOLEAN : list_teachers(cosmosOK)

CreateTeacherCheck ==
    \E c \in FreeRequest(creq), form \in CreateForms, salt \in Salts, clientOK \in BOOLEAN,
       readOK \in BOOLEAN :
        createTeacherCheck(c, form, salt, clientOK, readOK)

CreateTeacherWrite ==
    \E c \in Requests, cosmosOK \in BOOLEAN : createTeacherWrite(c, cosmosOK)

DeleteTeacher ==
    \E teacher_id \in TeacherIds, cosmosOK \in BOOLEAN : delete_teacher(teacher_id, cosmosOK)

NextAdmin ==
    \/ AdminLogin
    \/ AdminLogout
    \/ AdminDashboard
    \/ ListTeachers
    \/ CreateTeacherCheck
    \/ CreateTeacherWrite
    \/ DeleteTeacher
    \/ Tick

InitAdmin == Fresh(PlainAdminEnv)

SpecAdmin == InitAdmin /\ [][NextAdmin]_vars

HasTeacher(store, teacher_id) == \E d \in store : d.id = teacher_id

\* C5: a create-teacher request whose teacher id is in the teachers store is turned
\* down with nothing scheduled, also when read_item's call fails, and no
\* create-teacher write, however the requests interleave, changes a record that is
\* in the store.
C5_DuplicateIdRejected ==
    [][/\ \A c \in Requests, form \in ValidCreateForms, salt \in Salts, readOK \in BOOLEAN :
            (/\ is_admin_authenticated(session)
             /\ HasTeacher(teachers, strip(form.teacher_id))
             /\ createTeacherCheck(c, form, salt, TRUE, readOK))
            => /\ creq' = creq
               /\ resp' = ToDashboard("create_teacher", <<"Teacher ID already exists">>)
       /\ \A c \in Requests, cosmosOK \in BOOLEAN :
            createTeacherWrite(c, cosmosOK) => \A d \in teachers : d \in teachers']_vars

\* C6 as stated: deleting a teacher id that is no longer in the store (the store
\* answering the call) reports success to the admin, and no record has the id.
C6_SecondDeleteReportsSuccess ==
    [][\A teacher_id \in TeacherIds :
        (/\ is_admin_authenticated(session)
         /\ ~HasTeacher(teachers, teacher_id)
         /\ delete_teacher(teacher_id, TRUE))
        => /\ resp' = ToDashboard("delete_teacher", <<"deleted successfully">>)
           /\ ~HasTeacher(teachers', teacher_id)]_vars

\* C6 amended: deleting a teacher id that is in the store reports success and
\* leaves no record with that id; deleting it again, when it is no longer there,
\* leaves the store as it is, with no record of that id, and surfaces the store's
\* not-found error to the admin in a redirect to the dashboard.
C6_SecondDeleteReportsError ==
    [][\A teacher_id \in TeacherIds :
        (is_admin_authenticated(session) /\ delete_teacher(teacher_id, TRUE))
        => IF HasTeacher(teachers, teacher_id)
           THEN /\ resp' = ToDashboard("delete_teacher", <<"deleted successfully">>)
                /\ ~HasTeacher(teachers', teacher_id)
                /\ \A d \in teachers : d.id # teacher_id => d \in teachers'
           ELSE /\ resp' = ToDashboard("delete_teacher",
                               <<"Error deleting teacher", "CosmosResourceNotFoundError">>)
                /\ teachers' = teachers
                /\ ~HasTeacher(teachers', teacher_id)]_vars

\* a teacher was created and deleted, and a further delete was answered with the
\* not-found error
C6_Witness ==
    /\ served.create >= 1
    /\ teachers = {}
    /\ resp = ToDashboard("delete_teacher",
                  <<"Error deleting teacher", "CosmosResourceNotFoundError">>)

\* C8: no route handler ends in an exception that leaves it.
C8_NoUnhandledException == resp.kind # "unhandled"

\* the admin logging in and out and creating teachers, several requests at a time
NextCreate ==
    \/ AdminLogin
    \/ AdminLogout
    \/ CreateTeacherCheck
    \/ CreateTeacherWrite

SpecCreate == InitAdmin /\ [][NextCreate]_vars

\* the password of the form differs from its confirmation, or has fewer than 6
\* characters
BadPassword(form) ==
    LET password == FormGet(form, "password", <<>>)
        confirm_password == FormGet(form, "confirm_password", <<>>)
    IN  password # confirm_password \/ Len(password) < 6

\* the messages create_teacher turns a form down with before it looks at the store
ValidationMessages ==
    {<<"All fields are required">>, <<"Passwords do not match">>,
     <<"Password must be at least 6 characters long">>}

\* C11: a create-teacher request whose password differs from its confirmation, or
\* is shorter than 6 characters, is answered with a redirect (for a logged-in
\* admin: to the dashboard, with a validation message), calls neither read_item
\* nor upsert_item nor the teachers container at all, goes on to no write, and
\* leaves the teachers store as it was.
C11_BadPasswordNeverReachesStore ==
    [][\A c \in FreeRequest(creq), form \in CreateForms, salt \in Salts,
          clientOK \in BOOLEAN, readOK \in BOOLEAN :
        (BadPassword(form) /\ createTeacherCheck(c, form, salt, clientOK, readOK))
        => /\ calls' = <<>>
           /\ teachers' = teachers
           /\ creq' = creq
           /\ resp'.kind = "redirect"
           /\ session.admin_authenticated = TRUE
               => /\ resp'.target = "admin.admin_dashboard"
                  /\ resp'.flash \in ValidationMessages]_vars

\* a logged-in admin, with a teacher in the store, was told that the passwords
\* of a new teacher do not match
C11_Witness ==
    /\ session.admin_authenticated = TRUE
    /\ teachers # {}
    /\ resp = ToDashboard("create_teacher", <<"Passwords do not match">>)
    /\ calls = <<>>
    /\ \A c \in Requests : creq[c].pc = "idle"

-----------------------------------------------------------------------------
(* Teacher login against the database and the legacy file *)

LoginForms ==
    [teacher_id : {Missing, <<"t", " ">>, <<"u">>, <<"v">>},
     password : {Missing, Secret, Passwd}]

AddTeacher ==
    \E pwd2 \in {Secret, Passwd}, salt \in Salts, fileOK \in BOOLEAN :
        \E teacher_id \in {<<"t">>, <<"v">>} : add_teacher(teacher_id, Passwd, pwd2, salt, fileOK)

Login ==
    \E method \in {"GET", "POST"}, form \in LoginForms, queryOK \in BOOLEAN,
       fileOK \in BOOLEAN :
        \E next \in NextPaths : login(method, form, next, queryOK, fileOK)

NextLogin ==
    \/ Login
    \/ Logout
    \/ AddTeacher
    \/ Teacher

\* what create_teacher stores for teacher "u", with another password
TeacherU ==
    NewTeacher(<<"u">>, <<"V">>, generate_password_hash("s2", Passwd), DefaultAdmin, 0)

InitLogin ==
    /\ submissions = {}
    /\ blobs = {}
    /\ teachers \in {{}, {TeacherT}, {TeacherT, TeacherU}}
    /\ legacy = {}
    /\ session = Anonymous
    /\ adminEnv = NoAdminEnv
    /\ now = 0
    /\ greq = [c \in Requests |-> IdleGrade]
    /\ creq = [c \in Requests |-> IdleCreate]
    /\ receipts = {}
    /\ resp = Render("home", "home.html", <<>>, <<>>)
    /\ calls = <<>>
    /\ served = [submit |-> 0, grade |-> 0, create |-> 0]

SpecLogin == InitLogin /\ [][NextLogin]_vars

\* pwhash is a hash of password under one of the salts in use
HashOf(pwhash, password) ==
    \E salt \in {"s1", "s2"} : pwhash = <<"pbkdf2", salt>> \o password

\* the hashes stored for a teacher id: in the teachers container and in the legacy file
StoredHashes(teacher_id) ==
    {d.password : d \in {t \in teachers : t.id = teacher_id}}
        \cup {e.hash : e \in {x \in legacy : x.id = teacher_id}}

\* C4: a teacher login with the id of a teacher in the store and a password that
\* matches no hash stored for that id fails, the session staying as it was; and a
\* login changes the session, or redirects as logged in, only when the password
\* matches a hash stored for the id given (in the database or, failing that, in
\* the legacy file), and then the session's teacher is that id.
C4_LoginNeedsStoredPassword ==
    [][\A method \in {"GET", "POST"}, form \in LoginForms, next \in NextPaths,
          queryOK \in BOOLEAN, fileOK \in BOOLEAN :
        login(method, form, next, queryOK, fileOK)
        => LET teacher_id == strip(FormGet(form, "teacher_id", <<>>))
               password == FormGet(form, "password", <<>>)
               matches == \E h \in StoredHashes(teacher_id) : HashOf(h, password)
           IN  /\ (HasTeacher(teachers, teacher_id) /\ ~matches)
                   => /\ session' = session
                      /\ resp'.kind = "render"
                      /\ resp'.flash = IF method = "POST"
                                       THEN <<"Invalid teacher ID or password">> ELSE <<>>
               /\ (session' # session \/ resp'.kind = "redirect")
                   => /\ method = "POST"
                      /\ matches
                      /\ session'.teacher = teacher_id]_vars

\* teachers are in the store, a login was turned down and the session is anonymous
C4_Witness ==
    /\ HasTeacher(teachers, <<"t">>)
    /\ HasTeacher(teachers, <<"u">>)
    /\ legacy # {}
    /\ session = Anonymous
    /\ resp.route = "login"
    /\ resp.flash = <<"Invalid teacher ID or password">>

-----------------------------------------------------------------------------
(* Both guards: every protected route, with teachers and the admin logging in
   and out, over a store that holds a submission and a teacher *)

\* the guards see the request before the handler reads its form: a grading of a
\* stored submission and one of an unknown id, a valid and an invalid new teacher
AuthGradeForms ==
    {[tracking_id |-> <<" ", "a", "1">>, marks |-> <<"7">>, remark |-> <<" ", "o", "k">>],
     [tracking_id |-> <<"c", "3">>, marks |-> Missing, remark |-> Missing]}

AuthCreateForms ==
    {CreateForm(<<"u">>, <<"T">>, Secret, Secret),
     CreateForm(<<"u">>, <<"T">>, Short, Short)}

AuthTeacherLogin ==
    \E r \in TeacherLogins : login(r.method, r.form, None, TRUE, TRUE)

AuthAdminLogin ==
    \E r \in AdminLogins, salt \in Salts : admin_login(r.method, r.form, None, salt)

\* the browser whose session this is sends its next grading or new teacher when
\* the last one was answered; logins and logouts come at any time
Answered ==
    \A c \in Requests : greq[c].pc = "idle" /\ creq[c].pc = "idle"

AuthGradeLookup ==
    /\ Answered
    /\ \E c \in FreeRequest(greq), form \in AuthGradeForms, queryOK \in BOOLEAN :
           gradeLookup(c, form, queryOK)

AuthCreateTeacherCheck ==
    /\ Answered
    /\ \E c \in FreeRequest(creq), form \in AuthCreateForms, salt \in Salts,
          clientOK \in BOOLEAN, readOK \in BOOLEAN :
           createTeacherCheck(c, form, salt, clientOK, readOK)

NextAuth ==
    \/ AuthTeacherLogin
    \/ Logout
    \/ AuthAdminLogin
    \/ AdminLogout
    \/ Teacher
    \/ AuthGradeLookup
    \/ GradeWrite
    \/ AdminDashboard
    \/ ListTeachers
    \/ AuthCreateTeacherCheck
    \/ CreateTeacherWrite
    \/ DeleteTeacher

InitAuth ==
    /\ submissions = {SubmissionA}
    /\ blobs = {[name |-> d.file_url.blob, data |-> PdfFile.data] : d \in submissions}
    /\ teachers = {TeacherT}
    /\ legacy = {}
    /\ session = Anonymous
    /\ adminEnv = PlainAdminEnv
    /\ now = 0
    /\ greq = [c \in Requests |-> IdleGrade]
    /\ creq = [c \in Requests |-> IdleCreate]
    /\ receipts = {}
    /\ resp = Render("home", "home.html", <<>>, <<>>)
    /\ calls = <<>>
    /\ served = [submit |-> 0, grade |-> 0, create |-> 0]

SpecAuth == InitAuth /\ [][NextAuth]_vars

\* the request went no further than a guard: nothing was read, nothing changed
NothingTouched ==
    /\ calls' = <<>>
    /\ UNCHANGED <<submissions, blobs, teachers, legacy, session, greq, creq>>

SentToLogin(path) ==
    /\ resp'.kind = "redirect"
    /\ resp'.target = "login"
    /\ resp'.data = <<[next |-> path]>>

AdminAccessRequired == <<"Admin access required. Please log in.">>

SentToAdminLogin(path) ==
    /\ resp'.kind = "redirect"
    /\ resp'.target = "admin.admin_login"
    /\ resp'.flash = AdminAccessRequired
    /\ resp'.data = <<[next |-> path]>>

\* C3: /teacher and /grade, asked without the session's teacher set, redirect to
\* the teacher login with the path asked for, and the five admin routes, asked
\* without admin_authenticated set, redirect to the admin login; in both cases no
\* store is read and neither store, nor the session, changes.  Each guard looks at
\* its own flag alone: with its flag set the request passes its guard whatever
\* the other flag is, and with it unset the request is turned away whatever the
\* other flag is.
C3_GuardsTurnAway ==
    [][/\ ~Truthy(session.teacher)
          => /\ \A queryOK \in BOOLEAN :
                    teacher(queryOK) => SentToLogin(<<"/teacher">>) /\ NothingTouched
             /\ \A c \in FreeRequest(greq), form \in AuthGradeForms, queryOK \in BOOLEAN :
                    gradeLookup(c, form, queryOK)
                    => SentToLogin(<<"/grade">>) /\ NothingTouched
       /\ Truthy(session.teacher)
          => /\ \A queryOK \in BOOLEAN :
                    teacher(queryOK) => resp'.target # "login"
             /\ \A c \in FreeRequest(greq), form \in AuthGradeForms, queryOK \in BOOLEAN :
                    gradeLookup(c, form, queryOK) => resp'.target # "login"
       /\ session.admin_authenticated # TRUE
          => /\ admin_logout => SentToAdminLogin(<<"/admin/logout">>) /\ NothingTouched
             /\ \A cosmosOK \in BOOLEAN :
                    /\ admin_dashboard(cosmosOK)
                       => SentToAdminLogin(<<"/admin/dashboard">>) /\ NothingTouched
                    /\ list_teachers(cosmosOK)
                       => SentToAdminLogin(<<"/admin/teachers">>) /\ NothingTouched
                    /\ \A teacher_id \in TeacherIds :
                           delete_teacher(teacher_id, cosmosOK)
                           => /\ SentToAdminLogin(<<"/admin/delete-teacher/">> \o teacher_id)
                              /\ NothingTouched
             /\ \A c \in FreeRequest(creq), form \in AuthCreateForms, salt \in Salts,
                   clientOK \in BOOLEAN, readOK \in BOOLEAN :
                    createTeacherCheck(c, form, salt, clientOK, readOK)
                    => SentToAdminLogin(<<"/admin/create-teacher">>) /\ NothingTouched
       /\ session.admin_authenticated = TRUE
          => /\ admin_logout => resp'.flash # AdminAccessRequired
             /\ \A cosmosOK \in BOOLEAN :
                    /\ admin_dashboard(cosmosOK) => resp'.flash # AdminAccessRequired
                    /\ list_teachers(cosmosOK) => resp'.flash # AdminAccessRequired
                    /\ \A teacher_id \in TeacherIds :
                           delete_teacher(teacher_id, cosmosOK)
                           => resp'.flash # AdminAccessRequired
             /\ \A c \in FreeRequest(creq), form \in AuthCreateForms, salt \in Salts,
                   clientOK \in BOOLEAN, readOK \in BOOLEAN :
                    createTeacherCheck(c, form, salt, clientOK, readOK)
                    => resp'.flash # AdminAccessRequired]_vars

\* the admin is logged in, a teacher has logged in and out again, and /grade was
\* turned away to the teacher login
C3_Witness ==
    /\ session.admin_authenticated = TRUE
    /\ session.teacher = None
    /\ session.teacher_name # None
    /\ resp = ToLogin("grade", <<"/grade">>)

====
